---- MODULE Spec2Model ----
(***************************************************************************)
(* Background project-creation job of the Bevy editor launcher             *)
(* (crates/bevy_editor_launcher/src/main.rs).                              *)
(*                                                                         *)
(* One step of the model is one of                                         *)
(*   Start   a call of spawn_create_new_project_task, its command applied  *)
(*           before the next Update,                                       *)
(*   Finish  the worker of the IoTaskPool completing a job's future,       *)
(*   Tick    one run of the Update schedule: poll_create_project_task,     *)
(*           spawn_loading_window and handle_log_timer, followed by the    *)
(*           application of the commands they queued,                      *)
(*   Panic   a run of the Update schedule in which a system panics.        *)
(* Time is counted in whole seconds.                                       *)
(***************************************************************************)
EXTENDS Integers, Sequences, FiniteSets

\* ---------------------------------------------------------------- bounds
MaxJobs == 2          \* jobs started in one behaviour
MaxPath == 2          \* distinct target paths offered to start
MaxErr == 2           \* distinct io errors a job can fail with
MaxDelta == 3         \* largest Time::delta of one frame
MaxPendingTicks == 2  \* frames a job may stay unfinished while windows pile up

\* ------------------------------------------------------ program constants
\* Timer::from_seconds(5.0, TimerMode::Once)
GraceDuration == 5

Jobs == 1..MaxJobs
Paths == 1..MaxPath
Errors == 1..MaxErr
Deltas == 0..MaxDelta

\* the plus button, last child of the ProjectList node
PlusButton == -1
\* the path of a project get_local_projects may return at startup
LocalProject == 0

VARIABLES
    tasks,         \* entities carrying a CreateProjectTask (job ids)
    future,        \* job id -> state of the Task's future
    nextJob,       \* number of jobs started so far
    logs,          \* ProjectCreationLogs.0
    project_list,  \* ProjectInfoList.0
    persisted,     \* the list last handed to set_project_list
    persistCalls,  \* number of calls of set_project_list
    children,      \* Children of the ProjectList node
    timer,         \* the ProjectCreationLogTimer resource, or NoTimer
    timerEntities, \* live marker entities spawned for a timer
    windows,       \* number of LoadingWindow entities
    sinceArm,      \* seconds ticked since the last completion armed a timer
    crashed,       \* a system has panicked
    last           \* what the last step did

vars == <<tasks, future, nextJob, logs, project_list, persisted, persistCalls,
          children, timer, timerEntities, windows, sinceArm, crashed, last>>

\* ------------------------------------------------------------ data types
NotStarted == [st |-> "none", val |-> 0]
\* the future of create_new_project(template, path), not yet complete
Pending(path) == [st |-> "pending", val |-> path]
Taken == [st |-> "taken", val |-> 0]
\* std::io::Result<ProjectInfo>
OkResult(path) == [st |-> "ok", val |-> path]
ErrResult(e) == [st |-> "err", val |-> e]

NoTimer == [elapsed |-> -1, entity |-> 0]
Unarmed == -1

LastStep(op, delta, res, fired) ==
    [op |-> op, delta |-> delta, res |-> res, fired |-> fired]

\* ------------------------------------------------------- pure functions
Min(a, b) == IF a < b THEN a ELSE b

\* run_if_task_is_running
run_if_task_is_running(ts) == Cardinality(ts) > 0

\* format!("Successfully created new project at: {:?}", project_info.path)
SuccessLine(path) == [kind |-> "ok", val |-> path]

\* format!("Failed to create new project: {:?}", error)
FailureLine(e) == [kind |-> "err", val |-> e]

\* Timer::from_seconds(5.0, TimerMode::Once) with its marker entity
NewTimer(entity) == [elapsed |-> 0, entity |-> entity]

\* timer.timer.tick(time.delta()): a Once timer stops at its duration
TimerTick(t, delta) ==
    [t EXCEPT !.elapsed = Min(t.elapsed + delta, GraceDuration)]

\* timer.timer.finished()
TimerFinished(t) == t.elapsed >= GraceDuration

\* commands.entity(*plus_button_entity).remove::<ChildOf>()
RemoveChild(cs, c) == SelectSeq(cs, LAMBDA x : x # c)

\* InsertProjectNode without re-parenting the plus button
InsertProjectNode_AfterPlus(cs, path) == Append(cs, path)

\* remove::<ChildOf>() of the plus button, spawn_project_node under the
\* list, then insert(ChildOf(list)) on the plus button again
InsertProjectNode(cs, path) ==
    LET plus == cs[Len(cs)]
    IN  Append(Append(RemoveChild(cs, plus), path), plus)

\* DespawnTask without the despawn: the task entity outlives its result
DespawnTask_Kept(ts, j) == ts

\* commands.entity(task_entity).despawn()
DespawnTask(ts, j) == ts \ {j}

\* ------------------------------------------------------------------ Init
Init ==
    /\ tasks = {}
    /\ future = [j \in Jobs |-> NotStarted]
    /\ nextJob = 0
    /\ logs = <<>>
    /\ project_list \in {<<>>, <<LocalProject>>}
    /\ persisted = project_list
    /\ persistCalls = 0
    /\ children = Append(project_list, PlusButton)
    /\ timer = NoTimer
    /\ timerEntities = {}
    /\ windows = 0
    /\ sinceArm = Unarmed
    /\ crashed = FALSE
    /\ last = LastStep("init", 0, "none", FALSE)

\* --------------------------------------------------------------- actions
\* spawn_create_new_project_task: spawns the task entity, nothing else
spawn_create_new_project_task(path) ==
    /\ ~crashed
    /\ nextJob < MaxJobs
    /\ nextJob' = nextJob + 1
    /\ tasks' = tasks \cup {nextJob + 1}
    /\ future' = [future EXCEPT ![nextJob + 1] = Pending(path)]
    /\ last' = LastStep("start", 0, "none", FALSE)
    /\ UNCHANGED <<logs, project_list, persisted, persistCalls, children,
                   timer, timerEntities, windows, sinceArm, crashed>>

\* create_new_project(template, path).await completing on the IoTaskPool
Finish(j, ok, e) ==
    /\ ~crashed
    /\ j \in tasks
    /\ future[j].st = "pending"
    /\ future' = [future EXCEPT
                    ![j] = IF ok THEN OkResult(future[j].val) ELSE ErrResult(e)]
    /\ last' = LastStep("finish", 0, "none", FALSE)
    /\ UNCHANGED <<tasks, nextJob, logs, project_list, persisted, persistCalls,
                   children, timer, timerEntities, windows, sinceArm, crashed>>

\* poll_logs that puts the new line in front
poll_logs_Prepend(lg, res) ==
    IF res.st = "ok" THEN <<SuccessLine(res.val)>> \o lg
    ELSE IF res.st = "err" THEN <<FailureLine(res.val)>> \o lg
    ELSE lg

\* poll_logs whose Err arm pushes no line
poll_logs_SilentErr(lg, res) ==
    IF res.st = "ok" THEN Append(lg, SuccessLine(res.val)) ELSE lg

\* the arms of `match result` in poll_create_project_task, on the resources
\* it writes at once: logs.0.push(..)
poll_logs(lg, res) ==
    IF res.st = "ok" THEN Append(lg, SuccessLine(res.val))
    ELSE IF res.st = "err" THEN Append(lg, FailureLine(res.val))
    ELSE lg

\* project_list.0.push(project_info.clone())
poll_project_list(pl, res) ==
    IF res.st = "ok" THEN Append(pl, res.val) ELSE pl

\* poll_persisted handing over the list as it was before the push
poll_persisted_Stale(old, pl, res) ==
    IF res.st = "ok" THEN pl ELSE old

\* set_project_list(project_list.0.clone())
poll_persisted(old, pl, res) ==
    IF res.st = "ok" THEN poll_project_list(pl, res) ELSE old

\* set_project_list is called in the Ok arm, once, and nowhere else
poll_persist_calls(n, res) ==
    IF res.st = "ok" THEN n + 1 ELSE n

\* the commands of the Ok arm on the children of the ProjectList node
poll_children(cs, res) ==
    IF res.st = "ok" THEN InsertProjectNode(cs, res.val) ELSE cs

\* the task entity is despawned in both arms, and only there
poll_tasks(ts, j, res) ==
    IF res.st \in {"ok", "err"} THEN DespawnTask(ts, j) ELSE ts

\* The ProjectCreationLogTimer after the commands of the frame are applied.
\* poll queues insert_resource when a result was taken (done); handle_log_timer
\* ticked the resource in place and queues remove_resource when it finished
\* (fired).  The two systems are not ordered, so when both queue a command
\* either may be applied first (pollFirst).
ApplyTimerCommands(t, delta, done, fired, j, pollFirst) ==
    IF done /\ fired THEN (IF pollFirst THEN NoTimer ELSE NewTimer(j))
    ELSE IF done THEN NewTimer(j)
    ELSE IF fired THEN NoTimer
    ELSE IF t = NoTimer THEN NoTimer
    ELSE TimerTick(t, delta)

\* handle_log_timer despawns the LoadingWindow entities its query sees;
\* spawn_loading_window, run while a task exists, spawns one more
ApplyWindowCommands(w, running, fired) ==
    (IF fired THEN 0 ELSE w) + (IF running THEN 1 ELSE 0)

\* commands.spawn_empty() of poll, commands.entity(timer.entity).despawn()
\* of handle_log_timer
ApplyTimerEntityCommands(es, t, done, fired, j) ==
    (es \ (IF fired THEN {t.entity} ELSE {})) \cup (IF done THEN {j} ELSE {})

\* seconds since the last completion queued a timer; reset by a teardown
NextSinceArm(s, delta, done, fired) ==
    IF done THEN 0
    ELSE IF fired \/ s = Unarmed THEN Unarmed
    ELSE Min(s + delta, GraceDuration)

\* task_query.single_mut() panics unless exactly one task entity exists;
\* polling a Task whose output was taken panics as well
PollPanics ==
    /\ run_if_task_is_running(tasks)
    /\ \/ Cardinality(tasks) # 1
       \/ \E j \in tasks : future[j].st = "taken"

\* One run of the Update schedule (main): poll_create_project_task and
\* spawn_loading_window under run_if_task_is_running, handle_log_timer always,
\* then the deferred commands.
Tick(delta, pollFirst) ==
    /\ ~crashed
    /\ ~PollPanics
    /\ (\E j \in tasks : future[j].st = "pending") => windows < MaxPendingTicks
    /\ LET running == run_if_task_is_running(tasks)
           j == IF running THEN CHOOSE k \in tasks : TRUE ELSE 0
           \* block_on(future::poll_once(&mut task.0))
           res == IF running THEN future[j] ELSE NotStarted
           done == res.st \in {"ok", "err"}
           fired == timer # NoTimer /\ TimerFinished(TimerTick(timer, delta))
       IN  /\ logs' = poll_logs(logs, res)
           /\ project_list' = poll_project_list(project_list, res)
           /\ persisted' = poll_persisted(persisted, project_list, res)
           /\ persistCalls' = poll_persist_calls(persistCalls, res)
           /\ children' = poll_children(children, res)
           /\ tasks' = poll_tasks(tasks, j, res)
           /\ future' = IF done THEN [future EXCEPT ![j] = Taken] ELSE future
           /\ timer' = ApplyTimerCommands(timer, delta, done, fired, j, pollFirst)
           /\ timerEntities' =
                  ApplyTimerEntityCommands(timerEntities, timer, done, fired, j)
           /\ windows' = ApplyWindowCommands(windows, running, fired)
           /\ sinceArm' = NextSinceArm(sinceArm, delta, done, fired)
           /\ last' = LastStep("tick", delta, res.st, fired)
    /\ UNCHANGED <<nextJob, crashed>>

\* A run of the Update schedule in which poll_create_project_task panics:
\* the app aborts
Panic ==
    /\ ~crashed
    /\ PollPanics
    /\ crashed' = TRUE
    /\ last' = LastStep("panic", 0, "none", FALSE)
    /\ UNCHANGED <<tasks, future, nextJob, logs, project_list, persisted,
                   persistCalls, children, timer, timerEntities, windows,
                   sinceArm>>

Next ==
    \/ \E path \in Paths : spawn_create_new_project_task(path)
    \/ \E j \in Jobs, ok \in BOOLEAN, e \in Errors : Finish(j, ok, e)
    \/ \E delta \in Deltas, pollFirst \in BOOLEAN : Tick(delta, pollFirst)
    \/ Panic

Spec == Init /\ [][Next]_vars

\* ----------------------------------------------------------------- Phase
\* Running = a Job Handle exists, AwaitingDismiss = a dismiss timer exists
\* and no Job Handle does, Idle = neither
Phase ==
    IF tasks # {} THEN "Running"
    ELSE IF timer # NoTimer THEN "AwaitingDismiss"
    ELSE "Idle"

TypeOK ==
    /\ tasks \subseteq Jobs
    /\ nextJob \in 0..MaxJobs
    /\ windows \in Nat
    /\ crashed \in BOOLEAN

\* ======================================================================
\* Properties
\* ======================================================================

\* C1: single-flight: at most one CreateProjectTask entity exists in every
\* reachable state, whatever the sequence of starts and ticks.
C1_SingleFlight == Cardinality(tasks) <= 1

\* C2: exactly-once consumption.  A job that still has its task entity has
\* never been observed (no line for it), a started job without entity has
\* had its result taken, and the log holds exactly one line per such job;
\* an entity disappears only in the tick that takes its result and appends
\* its one line, and a line is appended only in such a tick.
C2_Consumed(j) == j \in 1..nextJob /\ j \notin tasks
C2_StateInv ==
    /\ \A j \in Jobs : j \in tasks => future[j].st \in {"pending", "ok", "err"}
    /\ \A j \in Jobs : C2_Consumed(j) <=> future[j] = Taken
    /\ Len(logs) = Cardinality({j \in Jobs : C2_Consumed(j)})
C2_Step ==
    /\ \A j \in tasks : j \notin tasks' =>
          /\ future[j].st \in {"ok", "err"}
          /\ last'.op = "tick" /\ last'.res = future[j].st
          /\ Len(logs') = Len(logs) + 1
    /\ logs' # logs =>
          /\ Len(logs') = Len(logs) + 1
          /\ SubSeq(logs', 1, Len(logs)) = logs
          /\ \E j \in tasks : j \notin tasks'
PhaseEdges ==
    {<<"Idle", "Running">>, <<"Running", "AwaitingDismiss">>,
     <<"AwaitingDismiss", "Idle">>}
C3_PhaseProgression ==
    [][Phase' # Phase => <<Phase, Phase'>> \in PhaseEdges]_vars

\* C4: the loading windows are torn down on the first tick at which the time
\* ticked since a completion armed the timer reaches GraceDuration, and on no
\* earlier tick.
C4_TimerCorrectness ==
    [][last'.op = "tick" =>
          (last'.fired <=>
              (sinceArm # Unarmed /\ sinceArm + last'.delta >= GraceDuration))]_vars

\* C5: right after every start the log is empty.
C5_StartClearsLog == last.op = "start" => logs = <<>>

C7_DismissTimerInvariant ==
    /\ timer # NoTimer => (tasks = {} /\ Phase = "AwaitingDismiss")
    /\ Phase = "AwaitingDismiss" => timer # NoTimer
    /\ sinceArm # Unarmed => timer # NoTimer

\* C8: the tick that observes Ok appends exactly the line naming the path,
\* appends the descriptor to the project list, removes the task entity and
\* arms a fresh timer, so that Phase is AwaitingDismiss afterwards.
C8_SuccessTransition ==
    [][(last'.op = "tick" /\ last'.res = "ok") =>
          \E j \in tasks :
              /\ future[j].st = "ok"
              /\ logs' = Append(logs, SuccessLine(future[j].val))
              /\ project_list' = Append(project_list, future[j].val)
              /\ j \notin tasks'
              /\ timer' # NoTimer /\ timer'.elapsed = 0
              /\ Phase' = "AwaitingDismiss"]_vars

\* C9: the tick that observes Err appends exactly the line with the error,
\* leaves the project list and the registry alone, removes the task entity
\* and arms a fresh timer, so that Phase is AwaitingDismiss afterwards.
C9_FailureTransition ==
    [][(last'.op = "tick" /\ last'.res = "err") =>
          \E j \in tasks :
              /\ future[j].st = "err"
              /\ logs' = Append(logs, FailureLine(future[j].val))
              /\ project_list' = project_list
              /\ persisted' = persisted
              /\ j \notin tasks'
              /\ timer' # NoTimer /\ timer'.elapsed = 0
              /\ Phase' = "AwaitingDismiss"]_vars

\* C10: a teardown happens only for a completion not yet torn down; the tick
\* that performs it leaves no LoadingWindow and no timer, and Phase is Idle.
C10_DismissOnce ==
    [][(last'.op = "tick" /\ last'.fired) =>
          /\ sinceArm # Unarmed
          /\ windows' = 0
          /\ timer' = NoTimer
          /\ Phase' = "Idle"]_vars

\* ------------------------------------------------------------- liveness
\* The host loop keeps running Update with time passing (a run either
\* completes or panics), and the IoTaskPool runs a spawned future to completion.
TickPositive == \E delta \in Deltas \ {0}, pollFirst \in BOOLEAN : Tick(delta, pollFirst)
JobFinishes == \E j \in Jobs, ok \in BOOLEAN, e \in Errors : Finish(j, ok, e)
UpdateRuns == TickPositive \/ Panic
LiveSpec == Spec /\ WF_vars(UpdateRuns) /\ WF_vars(JobFinishes)

\* C11: once a job has been started, the system eventually is Idle again
\* with no task entity, no dismiss timer and no loading window.
C11_AutoReturnToIdle ==
    (tasks # {}) ~> (tasks = {} /\ timer = NoTimer /\ windows = 0)

\* C12: no Update run panics, whatever the sequence of starts and ticks.
C12_NoPanic == ~crashed

\* C13: a tick that finds the job unfinished always runs to its end and leaves
\* the log, the project list, the task entity and the dismiss timer as they
\* were.
AnyTick == \E delta \in Deltas, pollFirst \in BOOLEAN : Tick(delta, pollFirst)
C13_PollerUntouched ==
    /\ logs' = logs
    /\ project_list' = project_list
    /\ persisted' = persisted
    /\ tasks' = tasks
    /\ future' = future
C13_PendingTickNoEffect ==
    /\ [](( /\ ~crashed
            /\ windows < MaxPendingTicks
            /\ \E j \in tasks : future[j].st = "pending") => ENABLED AnyTick)
    /\ [][(last'.op = "tick" /\ last'.res = "pending") =>
              (C13_PollerUntouched /\ timer' = timer)]_vars

\* C14: the log is append-only: every step leaves the previous log as a
\* prefix of the new one, so lines stay in the order they were appended and
\* none is removed or modified.
IsPrefix(s, t) == Len(s) <= Len(t) /\ SubSeq(t, 1, Len(s)) = s
C14_AppendOnly == [][IsPrefix(logs, logs')]_vars

\* a completion line appended behind the line of an earlier job
C14_Witness ==
    /\ last.op = "tick" /\ last.res \in {"ok", "err"}
    /\ Len(logs) >= 2

\* C15: completion is atomic at tick granularity.  A step changes none of a
\* job's completion effects or all of them: the task entity goes, exactly its
\* one line is appended, the project list (and registry) gets the descriptor
\* on success and stays as it was on failure, and the timer armed for the job
\* exists after the step; at most one job is consumed per step.
C15_Effects(j) ==
    /\ tasks' = tasks \ {j}
    /\ future[j].st \in {"ok", "err"} /\ future'[j] = Taken
    /\ logs' = Append(logs, IF future[j].st = "ok"
                            THEN SuccessLine(future[j].val)
                            ELSE FailureLine(future[j].val))
    /\ project_list' = IF future[j].st = "ok"
                       THEN Append(project_list, future[j].val)
                       ELSE project_list
    /\ persisted' = IF future[j].st = "ok" THEN project_list' ELSE persisted
    /\ timer' = NewTimer(j)
C15_NoEffect ==
    /\ tasks \subseteq tasks'
    /\ \A j \in tasks : future'[j] # Taken
    /\ logs' = logs
    /\ project_list' = project_list
    /\ persisted' = persisted
    /\ timer' = NoTimer \/ (timer # NoTimer /\ timer'.entity = timer.entity)
C15_AtomicCompletion ==
    [][C15_NoEffect \/ \E j \in tasks : C15_Effects(j)]_vars

\* C16: a successful completion inserts the new project's node immediately
\* before the plus button; the plus button stays the last child and occurs
\* once, the earlier nodes keep their order, and nothing else changes the
\* children.
Front(s) == SubSeq(s, 1, Len(s) - 1)
C16_PlusLast ==
    /\ Len(children) >= 1
    /\ children[Len(children)] = PlusButton
    /\ \A i \in 1..(Len(children) - 1) : children[i] # PlusButton
C16_Step ==
    IF last'.op = "tick" /\ last'.res = "ok"
    THEN \E j \in tasks :
            /\ future[j].st = "ok"
            /\ children' = Front(children) \o <<future[j].val, PlusButton>>
    ELSE children' = children
C16_StableInsertion == []C16_PlusLast /\ [][C16_Step]_vars

\* a node inserted behind an existing project node and before the plus button
C16_Witness ==
    /\ last.op = "tick" /\ last.res = "ok"
    /\ Len(children) >= 3

\* C17: set_project_list is called exactly once per successfully completed
\* job and never otherwise, with the in-memory list including the new
\* descriptor; the project list changes in no other step.
OkLines == Cardinality({i \in 1..Len(logs) : logs[i].kind = "ok"})
C17_Tracks ==
    /\ persisted = project_list
    /\ persistCalls = OkLines
C17_Step ==
    IF last'.op = "tick" /\ last'.res = "ok"
    THEN /\ \E j \in tasks : project_list' = Append(project_list, future[j].val)
         /\ persisted' = project_list'
         /\ persistCalls' = persistCalls + 1
    ELSE UNCHANGED <<project_list, persisted, persistCalls>>
C17_PersistenceTracksList == []C17_Tracks /\ [][C17_Step]_vars

\* the registry was handed a list that already held an earlier project
C17_Witness ==
    /\ last.op = "tick" /\ last.res = "ok"
    /\ persistCalls >= 1
    /\ Len(persisted) >= 2

\* C18: at most one LoadingWindow entity exists in every reachable state.
C18_OneLoadingWindow == windows <= 1

\* C19: the marker entity of a dismiss timer is alive exactly while its
\* ProjectCreationLogTimer resource exists: at most one is alive, and none
\* when there is no resource.
C19_NoTimerEntityLeak ==
    /\ Cardinality(timerEntities) <= 1
    /\ timer = NoTimer => timerEntities = {}
    /\ timer # NoTimer => timerEntities = {timer.entity}

====
